---- MODULE Spec2Model ----
(***************************************************************************)
(* A model of src/main.py: the Docker facade (pull, build,                 *)
(* build_with_output) over the docker-py client.                           *)
(*                                                                         *)
(* Text is modelled as a sequence of tokens.  The tokens are the pieces    *)
(* the regular expression of build_with_output tells apart: the phrase     *)
(* "Successfully built ", the prefix "sha256:", lower-case hex digits, a   *)
(* non-hex character and the newline.                                      *)
(*                                                                         *)
(* A Python Optional is a sequence of length <= 1: None is <<>>, a value   *)
(* v is <<v>>.                                                             *)
(***************************************************************************)
EXTENDS Integers, Sequences, FiniteSets, TLC

VARIABLES
    pc,          \* position of the call in progress
    op,          \* the facade operation that was called
    logger,      \* the module-level logger
    logged,      \* the records written with the logger, in order
    answer,      \* what the engine answered to pull's or build's call
    resp,        \* what client.api.build returned
    tee,         \* the state of itertools.tee(json_stream(resp))
    last_event,  \* build_with_output's local last_event
    image_id,    \* build_with_output's local image_id
    console,     \* what print has written, in order
    chunks,      \* the chunks the for-loop of build_with_output was handed
    apiBuilds,   \* number of calls of client.api.build
    lookups,     \* the calls of client.images.get, in order: the argument,
                 \* and whether the engine found the image
    outcome,     \* how the call ended: a returned value or a raised exception
    build_log,   \* the events read from a raised BuildError's build_log
    output,      \* Docker.run's local output: the lines of the container
    outpos,      \* number of lines the for-loop of Docker.run has read
    container_error, \* the ContainerError the engine raised, if it did
    trace,       \* the calls of the engine's get-by-name, build and run, and
                 \* the ends of the runs' output streams, in order
    mpc,         \* position of main / run_mnist
    environ,     \* os.environ: the names that are set
    image,       \* run_mnist's local image
    summary,     \* the failure summary main has printed
    result       \* how main ended

\* The state of the facade, of Docker.run, and of main / run_mnist.
facadeVars == <<logger, logged, answer, resp, tee, last_event, image_id, chunks,
                apiBuilds, lookups, build_log>>
runVars == <<output, outpos, container_error>>
mainVars == <<mpc, environ, image, summary, result>>

vars == <<pc, op, console, outcome, trace, facadeVars, runVars, mainVars>>

-----------------------------------------------------------------------------
(* Bounds of the model *)

\* longest build event stream the engine sends
MaxEvents == 3
\* longest list the engine's pull returns
MaxPull == 2
\* longest text, in tokens, of the texts the pattern is tried on one by one
MaxTextLen == 3
\* longest output, in lines, of a container
MaxLines == 2
\* longest build event stream the engine sends to run_mnist
MaxMainEvents == 2

-----------------------------------------------------------------------------
(* Values *)

None == <<>>
Some(v) == <<v>>

SB == "Successfully built "
SHA == "sha256:"
NL == "\n"
HexToks == {"a", "b"}

\* The stream texts the engine sends: a progress line, the success line
\* with its newline and without, a digest line, and the success phrase that
\* is not at the start of the text.
Texts ==
    { <<"x", NL>>,
      <<SB, "a", "b", NL>>,
      <<SB, "b">>,
      <<SHA, "a">>,
      <<"x", SB, "a">> }

\* Every text of up to MaxTextLen tokens.
Tokens == {SB, SHA, NL, "x"} \cup HexToks
AllTexts == UNION { [1..n -> Tokens] : n \in 0..MaxTextLen }

ErrMsgs == {"e1", "e2"}

\* A decoded event is a dict: the key 'error' and the key 'stream' are each
\* present or not; other says whether it has any other key ('status', 'aux').
Events ==
    { e \in [error : {None} \cup {Some(m) : m \in ErrMsgs},
             stream : {None} \cup {Some(s) : s \in Texts},
             other : BOOLEAN] :
        e.other => (e.error = None /\ e.stream = None) }

EventSeqs == UNION { [1..n -> Events] : n \in 0..MaxEvents }

\* An event that has a stream text only.
TextEvent(t) == [error |-> None, stream |-> Some(t), other |-> FALSE]

\* An image handle of the engine.
Image(id) == [id |-> id]
ImageIds == { <<"a">>, <<"b">> }

\* client.api.build returns the decoded stream, or a plain string.  A stream
\* is bad when, after its events, it holds a record that is not JSON.
StrResp(s) == [isStr |-> TRUE, str |-> s, events |-> <<>>, bad |-> FALSE]
StreamResp(es) == [isStr |-> FALSE, str |-> <<>>, events |-> es, bad |-> FALSE]
BadStreamResp(es) == [isStr |-> FALSE, str |-> <<>>, events |-> es, bad |-> TRUE]
NoResp == StreamResp(<<>>)

\* The first argument of an exception: a string or an event.
StrArg(s) == [isStr |-> TRUE, str |-> s, ev |-> None]
EventArg(e) == [isStr |-> FALSE, str |-> "", ev |-> Some(e)]
NoArg == StrArg("")

Returned(v) == [kind |-> "return", value |-> v, exc |-> "", arg |-> NoArg]
Raised(x, a) == [kind |-> "raise", value |-> None, exc |-> x, arg |-> a]
NoOutcome == [kind |-> "none", value |-> None, exc |-> "", arg |-> NoArg]

Min(a, b) == IF a < b THEN a ELSE b

-----------------------------------------------------------------------------
(* re.search(r'(^Successfully built |sha256:)([0-9a-f]+)$', text) *)

IsHex(tok) == tok \in HexToks

\* Variant: $ as \Z, the end of the text only.
DollarAt_endOnly(text) == {Len(text)}

\* The positions at which $ matches: the end of the text, and just before a
\* newline that ends the text.
DollarAt(text) ==
    {Len(text)} \cup
    (IF Len(text) > 0 /\ text[Len(text)] = NL THEN {Len(text) - 1} ELSE {})

\* Group 1 matches the token at i: the phrase at the start of the text (^ is
\* the start of the text, the pattern is compiled without re.MULTILINE), or
\* the digest prefix anywhere.
\* Variant: both alternatives are anchored at the start of the text.
Group1At_anchored(text, i) == i = 1 /\ text[i] \in {SB, SHA}

Group1At(text, i) ==
    \/ i = 1 /\ text[i] = SB
    \/ text[i] = SHA

\* The pattern matches from i when group 1 matches there and one or more hex
\* digits follow up to a position where $ matches.
MatchFrom(text, i) ==
    { j \in DollarAt(text) :
        /\ j > i
        /\ Group1At(text, i)
        /\ \A k \in (i + 1)..j : IsHex(text[k]) }

MatchStarts(text) == { i \in 1..Len(text) : MatchFrom(text, i) # {} }

SetMin(S) == CHOOSE x \in S : \A y \in S : x <= y
SetMax(S) == CHOOSE x \in S : \A y \in S : y <= x

\* match.group(2) of the leftmost match (the + is greedy), or None.
Match(text) ==
    IF MatchStarts(text) = {} THEN None
    ELSE LET i == SetMin(MatchStarts(text))
             j == SetMax(MatchFrom(text, i))
         IN  Some(SubSeq(text, i + 1, j))

-----------------------------------------------------------------------------
(* itertools.tee(json_stream(resp)): two iterators over one source.  Each  *)
(* has a queue of the items the other one has read from the source and it  *)
(* has not; pos counts the items read from the source.                     *)

NewTee == [pos |-> 0, q |-> [internal |-> <<>>, result |-> <<>>]]

Other(it) == IF it = "internal" THEN "result" ELSE "internal"

TeeHasNext(t, it, src) == t.q[it] # <<>> \/ t.pos < Len(src)

TeeItem(t, it, src) ==
    IF t.q[it] # <<>> THEN Head(t.q[it]) ELSE src[t.pos + 1]

\* Variant: an item read from the source is not queued for the other
\* iterator.
TeeAdvance_unshared(t, it, src) ==
    IF t.q[it] # <<>>
    THEN [t EXCEPT !.q[it] = Tail(@)]
    ELSE [t EXCEPT !.pos = @ + 1]

TeeAdvance(t, it, src) ==
    IF t.q[it] # <<>>
    THEN [t EXCEPT !.q[it] = Tail(@)]
    ELSE [pos |-> t.pos + 1,
          q |-> [t.q EXCEPT ![Other(it)] = Append(@, src[t.pos + 1])]]

-----------------------------------------------------------------------------
(* Docker.pull *)

\* What client.images.pull does: returns an image, returns a list of images,
\* or raises ImageNotFound.
NoAnswer == [kind |-> "none", items |-> <<>>]
PullOne(i) == [kind |-> "image", items |-> <<i>>]
PullList(l) == [kind |-> "list", items |-> l]
PullNotFound == [kind |-> "notfound", items |-> <<>>]

Images == { Image(id) : id \in ImageIds }

PullResults ==
    { PullOne(i) : i \in Images } \cup
    { PullList(l) : l \in UNION { [1..n -> Images] : n \in 0..MaxPull } } \cup
    { PullNotFound }

LogRecord(what, n) == [msg |-> what, n |-> n]

\* len(pull_result) != 1
PullAnomaly(r) == Len(r.items) # 1

\* The records pull writes with logger.error.
PullLogged(r) ==
    IF r.kind = "list" /\ PullAnomaly(r)
    THEN <<LogRecord("pull failed: list", Len(r.items))>>
    ELSE IF r.kind = "notfound"
    THEN <<LogRecord("pull failed: not found", 0)>>
    ELSE <<>>

\* Variant: the last element of the list is taken.
PullFirst_last(r) ==
    IF Len(r.items) = 0
    THEN Raised("IndexError", StrArg("list index out of range"))
    ELSE Returned(Some(r.items[Len(r.items)]))

\* pull_result[0]: IndexError on an empty list.
PullFirst(r) ==
    IF Len(r.items) = 0
    THEN Raised("IndexError", StrArg("list index out of range"))
    ELSE Returned(Some(r.items[1]))

\* except errors.ImageNotFound: image = None
PullNotFoundOutcome == Returned(None)

PullOutcome(r) ==
    CASE r.kind = "list" -> PullFirst(r)
      [] r.kind = "image" -> Returned(Some(r.items[1]))
      [] r.kind = "notfound" -> PullNotFoundOutcome

-----------------------------------------------------------------------------
(* Docker.build *)

\* What client.images.build does: returns (image, stream) or raises
\* BuildError.
Built(i) == [kind |-> "built", items |-> <<i>>]
BuildFailed == [kind |-> "builderror", items |-> <<>>]

BuildResults == { Built(i) : i \in Images } \cup { BuildFailed }

BuildLogged(r) ==
    IF r.kind = "builderror" THEN <<LogRecord("build failed", 0)>> ELSE <<>>

\* Variant: the BuildError of the engine is raised again.
BuildOutcome_raises(r) ==
    IF r.kind = "built" THEN Returned(Some(r.items[1]))
    ELSE Raised("BuildError", StrArg("build failed"))

BuildOutcome(r) ==
    IF r.kind = "built" THEN Returned(Some(r.items[1])) ELSE Returned(None)

-----------------------------------------------------------------------------
(* Docker.build_with_output *)

\* Variant: the error key counts only on a chunk without a stream text.
HasError_unlessStream(chunk) == chunk.error # None /\ chunk.stream = None

\* 'error' in chunk, 'stream' in chunk
HasError(chunk) == chunk.error # None
HasStream(chunk) == chunk.stream # None

\* Variant: print without end='' ends every text with a newline.
Echo_println(out, text) == out \o text \o <<NL>>

\* print(text, flush=True, end='')
Echo(out, text) == out \o text

\* Variant: a string response is not told apart from a stream.
IsStringResp_never(r) == FALSE

\* isinstance(resp, six.string_types)
IsStringResp(r) == r.isStr

\* Variant: the loop ends after its first chunk.
LoopHasNext_once(t, src) == TeeHasNext(t, "internal", src) /\ t.pos < 1

\* for chunk in internal_stream: there is another chunk.
LoopHasNext(t, src) == TeeHasNext(t, "internal", src)

\* Python's truth value of image_id (None or a string) and of last_event
\* (None or a dict: a dict with no key is false).
EmptyDict(e) == e.error = None /\ e.stream = None /\ ~e.other
TruthyId(id) == id # None /\ id[1] # <<>>
TruthyEvent(ev) == ev # None /\ ~EmptyDict(ev[1])

\* Variant: the first match is kept.
NextImageId_first(id, text) ==
    IF id = None /\ Match(text) # None THEN Match(text) ELSE id

\* image_id after a chunk that has a stream text.
NextImageId(id, text) == IF Match(text) # None THEN Match(text) ELSE id

\* last_event or 'Unknown'
UnresolvedArg(ev) ==
    IF TruthyEvent(ev) THEN EventArg(ev[1]) ELSE StrArg("Unknown")

\* raise errors.BuildError(chunk['error'], result_stream)
ErrorOutcome(chunk) == Raised("BuildError", StrArg(chunk.error[1]))

\* Variant: a stream without any event is not a failure.
UnresolvedOutcome_quiet(ev) ==
    IF ev = None THEN Returned(None) ELSE Raised("BuildError", UnresolvedArg(ev))

\* raise errors.BuildError(last_event or 'Unknown', result_stream)
UnresolvedOutcome(ev) == Raised("BuildError", UnresolvedArg(ev))

\* Variant: a lookup that finds nothing is reported as a failed build.
GetOutcome_asBuildError(id, found) ==
    IF found THEN Returned(Some(Image(id)))
    ELSE Raised("BuildError", StrArg("not found"))

\* client.images.get(id): the image, or ImageNotFound.
GetOutcome(id, found) ==
    IF found THEN Returned(Some(Image(id)))
    ELSE Raised("ImageNotFound", StrArg("not found"))

-----------------------------------------------------------------------------
(* Docker.run *)

\* A line of container output is bytes: valid UTF-8, or not.
Bytes(b) == [bytes |-> b]
Lines == { Bytes("l1"), Bytes("l2"), Bytes("\\xff") }
LineSeqs == UNION { [1..n -> Lines] : n \in 0..MaxLines }

\* line.decode('utf-8'): the text, or UnicodeDecodeError.
Decodes(line) == line.bytes # "\\xff"
Decode(line) == line.bytes

\* What client.containers.run(..., detach=False, stream=True) does: it waits
\* for the container, then returns the generator of its output or, on a
\* non-zero exit status, raises ContainerError.
ExitStatuses == {1, 2}
Stderrs == { None, Some(<<"oops", NL>>) }
ContainerErrors ==
    { [ok |-> FALSE, lines |-> <<>>, exit_status |-> x, stderr |-> e] :
        x \in ExitStatuses, e \in Stderrs }
RunResults ==
    { [ok |-> TRUE, lines |-> ls, exit_status |-> 0, stderr |-> None] :
        ls \in LineSeqs } \cup ContainerErrors

\* The arguments of a run, as the engine is handed them; image.tags[0] names
\* the image.
NoVolumes == [host |-> "", bind |-> ""]
RunCall(i, command, volumes, environment) ==
    [call |-> "run", image |-> Some(i), command |-> command,
     volumes |-> volumes, environment |-> environment]
RunClosed ==
    [call |-> "closed", image |-> None, command |-> "",
     volumes |-> NoVolumes, environment |-> {}]
BuildCall(buildargs) ==
    [call |-> "build", image |-> None, command |-> "",
     volumes |-> NoVolumes, environment |-> buildargs]
GetCall(r) ==
    [call |-> "get", image |-> r, command |-> "",
     volumes |-> NoVolumes, environment |-> {}]

\* The ContainerError of a run.
ContainerError(i, command, r) ==
    [command |-> command, image |-> i, exit_status |-> r.exit_status,
     stderr |-> r.stderr]

-----------------------------------------------------------------------------
(* run_mnist and main *)

\* The environments main is started in.
Environs ==
    { {},
      {"mlcube_examples"},
      {"mlcube_examples", "http_proxy", "https_proxy", "HOME"} }

\* _get_env_variables()
GetEnvVariables(env) == env \cap {"http_proxy", "https_proxy"}

DownloadCommand ==
    "download --data-config=/storage/data.yaml  --log-dir=/storage --data-dir=/storage"
TrainCommand ==
    "train --train-config=/storage/train.yaml  --log-dir=/storage --data-dir=/storage --model-dir=/storage"
Command(stage) == IF stage = "download" THEN DownloadCommand ELSE TrainCommand

\* {f'{path}\\workspace': dict(bind='/storage')}
Volumes == [host |-> "mnist\\workspace", bind |-> "/storage"]

\* The build event streams run_mnist's build is answered with: a progress
\* line, the success line and an error event, with or without a record that
\* is not JSON at the end; or a string.
MainEvents ==
    { TextEvent(<<"x", NL>>),
      TextEvent(<<SB, "a", "b", NL>>),
      [error |-> Some("e1"), stream |-> None, other |-> FALSE] }
MainEventSeqs == UNION { [1..n -> MainEvents] : n \in 0..MaxMainEvents }
MainResps ==
    { StreamResp(es) : es \in MainEventSeqs } \cup
    { BadStreamResp(es) : es \in MainEventSeqs } \cup
    { StrResp(<<"a">>) }

\* Variant: the image is built whether or not it was found.
AfterGet_build(found) == "build"

\* try: image = get(image_name) / except ImageNotFound: image = build...
AfterGet(found) == IF found THEN "download" ELSE "build"

\* Variant: a failed download run does not keep the train run from starting.
AfterStage_goOn(stage, out) ==
    CASE stage = "download" -> "train"
      [] out.kind = "raise" -> "unwind"
      [] stage = "build" -> "download"
      [] stage = "train" -> "return"

\* What follows build_with_output, the download run and the train run in
\* run_mnist: the next statement, or the exception leaves run_mnist.
AfterStage(stage, out) ==
    CASE out.kind = "raise" -> "unwind"
      [] stage = "build" -> "download"
      [] stage = "download" -> "train"
      [] stage = "train" -> "return"

\* Variant: main catches nothing.
MainCatches_nothing(exc) == FALSE

\* except errors.ContainerError as err
MainCatches(exc) == exc = "ContainerError"

\* str(err.stderr or '') of bytes: b'...', a newline shown as \n.
Repr(stderr) ==
    IF stderr = None THEN <<>>
    ELSE <<"b'">> \o [k \in 1..Len(stderr[1]) |->
                        IF stderr[1][k] = NL THEN "\\n" ELSE stderr[1][k]]
                  \o <<"'">>

\* .replace(r'\n', '\n')
Unescape(text) == [k \in 1..Len(text) |-> IF text[k] = "\\n" THEN NL ELSE text[k]]

\* What main prints for a ContainerError.
Summary(err) ==
    [command |-> err.command, image |-> err.image,
     exit_status |-> err.exit_status, stderr |-> Unescape(Repr(err.stderr))]

-----------------------------------------------------------------------------
(* The module-level logger: None until the script's entry point sets it,   *)
(* which it does before it calls anything.                                 *)

Logger == Some("root")

\* logger.error(...) on a call that ends as out: with no logger the
\* attribute lookup on None raises instead.
WithLog(lg, recs, out) ==
    IF recs # <<>> /\ lg = None
    THEN [logged |-> <<>>,
          outcome |-> Raised("AttributeError", StrArg("NoneType has no error"))]
    ELSE [logged |-> recs, outcome |-> out]

-----------------------------------------------------------------------------
(* The state machine *)

Init ==
    /\ pc = "idle"
    /\ op = "none"
    /\ logger = Logger
    /\ logged = <<>>
    /\ answer = NoAnswer
    /\ resp = NoResp
    /\ tee = NewTee
    /\ last_event = None
    /\ image_id = None
    /\ console = <<>>
    /\ chunks = <<>>
    /\ apiBuilds = 0
    /\ lookups = <<>>
    /\ outcome = NoOutcome
    /\ build_log = <<>>
    /\ output = <<>>
    /\ outpos = 0
    /\ container_error = None
    /\ trace = <<>>
    /\ mpc = "none"
    /\ environ = {}
    /\ image = None
    /\ summary = None
    /\ result = NoOutcome

Finish(out) ==
    /\ outcome' = out
    /\ pc' = IF out.kind = "raise" THEN "raised" ELSE "returned"

\* Docker.pull(name), the engine answering r.
Pull ==
    /\ pc = "idle"
    /\ op' = "pull"
    /\ \E r \in PullResults :
         LET w == WithLog(logger, PullLogged(r), PullOutcome(r))
         IN  /\ answer' = r
             /\ logged' = logged \o w.logged
             /\ Finish(w.outcome)
    /\ UNCHANGED <<logger, resp, tee, last_event, image_id, console, chunks,
                   apiBuilds, lookups, build_log>>
    /\ UNCHANGED <<trace, runVars, mainVars>>

\* Docker.build(path, dockerfile, tag), the engine answering r.
Build ==
    /\ pc = "idle"
    /\ op' = "build"
    /\ \E r \in BuildResults :
         LET w == WithLog(logger, BuildLogged(r), BuildOutcome(r))
         IN  /\ answer' = r
             /\ logged' = logged \o w.logged
             /\ Finish(w.outcome)
    /\ UNCHANGED <<logger, resp, tee, last_event, image_id, console, chunks,
                   apiBuilds, lookups, build_log>>
    /\ UNCHANGED <<trace, runVars, mainVars>>

\* What client.api.build returns.
Resps == { StreamResp(es) : es \in EventSeqs } \cup { StrResp(s) : s \in ImageIds }

\* A stream of one text event, alone or after an event that set a candidate.
TextResps ==
    { StreamResp(<<TextEvent(t)>>) : t \in AllTexts } \cup
    { StreamResp(<<TextEvent(<<SHA, "a", "a">>), TextEvent(t)>>) : t \in AllTexts }

\* build_with_output up to the for-loop: the raw build call answers with one
\* of rs.
BwoCallWith(rs, buildargs) ==
    /\ pc = "idle"
    /\ op' = "build_with_output"
    /\ apiBuilds' = apiBuilds + 1
    /\ resp' \in rs
    /\ trace' = Append(trace, BuildCall(buildargs))
    /\ last_event' = None
    /\ image_id' = None
    /\ tee' = NewTee
    /\ pc' = IF IsStringResp(resp') THEN "bwo_get" ELSE "bwo_loop"
    /\ UNCHANGED <<logger, logged, answer, console, chunks, lookups, outcome,
                   build_log>>
    /\ UNCHANGED <<runVars, mainVars>>

BwoCall == BwoCallWith(Resps, {})

\* The call on a stream that tries one text.
BwoCallText == BwoCallWith(TextResps, {})

\* One iteration of the for-loop over internal_stream.
BwoChunk ==
    /\ pc = "bwo_loop"
    /\ LoopHasNext(tee, resp.events)
    /\ LET chunk == TeeItem(tee, "internal", resp.events)
       IN  /\ tee' = TeeAdvance(tee, "internal", resp.events)
           /\ chunks' = Append(chunks, chunk)
           /\ IF HasError(chunk)
              THEN /\ Finish(ErrorOutcome(chunk))
                   /\ UNCHANGED <<console, image_id, last_event>>
              ELSE /\ IF HasStream(chunk)
                      THEN /\ console' = Echo(console, chunk.stream[1])
                           /\ image_id' = NextImageId(image_id, chunk.stream[1])
                      ELSE UNCHANGED <<console, image_id>>
                   /\ last_event' = Some(chunk)
                   /\ UNCHANGED <<pc, outcome>>
    /\ UNCHANGED <<op, logger, logged, answer, resp, apiBuilds, lookups, build_log>>
    /\ UNCHANGED <<trace, runVars, mainVars>>

\* The stream is exhausted: the loop ends, and without an image_id the call
\* raises BuildError.
BwoExhausted ==
    /\ pc = "bwo_loop"
    /\ ~LoopHasNext(tee, resp.events)
    /\ ~resp.bad
    /\ IF TruthyId(image_id)
       THEN pc' = "bwo_get" /\ UNCHANGED outcome
       ELSE Finish(UnresolvedOutcome(last_event))
    /\ UNCHANGED <<op, logger, logged, answer, resp, tee, last_event, image_id, console,
                   chunks, apiBuilds, lookups, build_log>>
    /\ UNCHANGED <<trace, runVars, mainVars>>

\* return self.client.images.get(...), the engine finding the image or not.
BwoGet ==
    /\ pc = "bwo_get"
    /\ LET id == IF IsStringResp(resp) THEN resp.str ELSE image_id[1]
       IN  \E found \in BOOLEAN :
               /\ lookups' = Append(lookups, [id |-> id, found |-> found])
               /\ Finish(GetOutcome(id, found))
    /\ UNCHANGED <<op, logger, logged, answer, resp, tee, last_event, image_id, console,
                   chunks, apiBuilds, build_log>>
    /\ UNCHANGED <<trace, runVars, mainVars>>

\* The caller reads one event from the build_log of the BuildError that
\* build_with_output raised: the result_stream half of the tee.
ReadBuildLog ==
    /\ pc = "raised"
    /\ op = "build_with_output"
    /\ outcome.exc = "BuildError"
    /\ TeeHasNext(tee, "result", resp.events)
    /\ build_log' = Append(build_log, TeeItem(tee, "result", resp.events))
    /\ tee' = TeeAdvance(tee, "result", resp.events)
    /\ UNCHANGED <<pc, op, logger, logged, answer, resp, last_event, image_id, console,
                   chunks, apiBuilds, lookups, outcome>>
    /\ UNCHANGED <<trace, runVars, mainVars>>

\* The build_log is exhausted.
EndBuildLog ==
    /\ pc = "raised"
    /\ op = "build_with_output"
    /\ outcome.exc = "BuildError"
    /\ ~TeeHasNext(tee, "result", resp.events)
    /\ pc' = "log_read"
    /\ UNCHANGED <<op, logger, logged, answer, resp, tee, last_event, image_id, console,
                   chunks, apiBuilds, lookups, outcome, build_log>>
    /\ UNCHANGED <<trace, runVars, mainVars>>

\* The stream holds a record that is not JSON: json_stream raises in the
\* for-loop.
BwoDecodeError ==
    /\ pc = "bwo_loop"
    /\ ~LoopHasNext(tee, resp.events)
    /\ resp.bad
    /\ Finish(Raised("StreamParseError", StrArg("not JSON")))
    /\ UNCHANGED <<op, console, trace, facadeVars, runVars, mainVars>>

\* Docker.run up to the for-loop: logger.info, then client.containers.run
\* answers with the output of the container or raises ContainerError.
RunCallWith(i, command, volumes, environment) ==
    /\ pc = "idle"
    /\ op' = "run"
    /\ LET w == WithLog(logger, <<LogRecord("run", 0)>>, NoOutcome)
       IN  IF w.outcome.kind = "raise"
           THEN /\ Finish(w.outcome)
                /\ UNCHANGED <<logged, trace, runVars>>
           ELSE /\ logged' = logged \o w.logged
                /\ trace' = Append(trace, RunCall(i, command, volumes, environment))
                /\ \E r \in RunResults :
                     IF r.ok
                     THEN /\ output' = r.lines
                          /\ outpos' = 0
                          /\ pc' = "run_loop"
                          /\ UNCHANGED <<outcome, container_error>>
                     ELSE /\ container_error' = Some(ContainerError(i, command, r))
                          /\ Finish(Raised("ContainerError", StrArg("non-zero exit")))
                          /\ UNCHANGED <<output, outpos>>
    /\ UNCHANGED <<logger, answer, resp, tee, last_event, image_id, chunks,
                   apiBuilds, lookups, build_log, console, mainVars>>

\* Docker.run(image, command), called on its own.
Run ==
    \E i \in Images, stage \in {"download", "train"} :
        RunCallWith(i, Command(stage), Volumes, {})

\* One iteration of the for-loop over output: decode the line and print it.
RunLine ==
    /\ pc = "run_loop"
    /\ outpos < Len(output)
    /\ outpos' = outpos + 1
    /\ LET line == output[outpos + 1]
       IN  IF Decodes(line)
           THEN /\ console' = Echo(console, <<Decode(line)>>)
                /\ UNCHANGED <<pc, outcome>>
           ELSE /\ Finish(Raised("UnicodeDecodeError", StrArg("invalid start byte")))
                /\ UNCHANGED console
    /\ UNCHANGED <<op, trace, facadeVars, output, container_error, mainVars>>

\* The output is exhausted: the stream has closed and run returns.
RunEnd ==
    /\ pc = "run_loop"
    /\ outpos = Len(output)
    /\ trace' = Append(trace, RunClosed)
    /\ Finish(Returned(None))
    /\ UNCHANGED <<op, console, facadeVars, runVars, mainVars>>

\* main up to run_mnist's first engine call: os.path.join raises TypeError
\* when mlcube_examples is not set.
MainStart ==
    /\ pc = "idle"
    /\ mpc = "none"
    /\ environ' \in Environs
    /\ IF "mlcube_examples" \in environ'
       THEN /\ mpc' = "get"
            /\ UNCHANGED <<pc, result>>
       ELSE /\ mpc' = "done"
            /\ pc' = "exited"
            /\ result' = Raised("TypeError", StrArg("join of None"))
    /\ UNCHANGED <<op, console, outcome, trace, facadeVars, runVars, image, summary>>

\* docker.client.images.get(image_name): the image, or ImageNotFound.
MainGet ==
    /\ pc = "idle"
    /\ mpc = "get"
    /\ \E r \in {None} \cup { Some(i) : i \in Images } :
         /\ trace' = Append(trace, GetCall(r))
         /\ image' = r
         /\ mpc' = AfterGet(r # None)
    /\ UNCHANGED <<pc, op, console, outcome, facadeVars, runVars, environ, summary,
                   result>>

\* docker.build_with_output(path, 'Dockerfile', image_name, env_vars)
MainBuild ==
    /\ mpc = "build"
    /\ BwoCallWith(MainResps, GetEnvVariables(environ))

\* docker.run(image, command=..., volumes=..., environment=env_vars)
MainRun ==
    /\ mpc \in {"download", "train"}
    /\ RunCallWith(image[1], Command(mpc), Volumes, GetEnvVariables(environ))

\* The call that run_mnist made has ended: run_mnist goes on to its next
\* statement, or returns, or the exception reaches main, which prints the
\* summary of a ContainerError and lets any other exception pass.
MainStage ==
    /\ mpc \in {"build", "download", "train"}
    /\ pc \in {"returned", "raised"}
    /\ LET nxt == AfterStage(mpc, outcome)
       IN  IF nxt \in {"download", "train"}
           THEN /\ mpc' = nxt
                /\ pc' = "idle"
                /\ image' = IF mpc = "build" THEN outcome.value ELSE image
                /\ outcome' = NoOutcome
                /\ resp' = NoResp
                /\ tee' = NewTee
                /\ last_event' = None
                /\ image_id' = None
                /\ chunks' = <<>>
                /\ output' = <<>>
                /\ outpos' = 0
                /\ UNCHANGED <<summary, result>>
           ELSE /\ mpc' = "done"
                /\ pc' = "exited"
                /\ IF nxt = "unwind" /\ ~MainCatches(outcome.exc)
                   THEN result' = outcome /\ UNCHANGED summary
                   ELSE /\ result' = Returned(None)
                        /\ summary' = IF nxt = "unwind"
                                      THEN Some(Summary(container_error[1]))
                                      ELSE summary
                /\ UNCHANGED <<image, outcome, resp, tee, last_event, image_id,
                               chunks, output, outpos>>
    /\ UNCHANGED <<op, console, trace, logger, logged, answer, apiBuilds, lookups,
                   build_log, container_error, environ>>

Next ==
    \/ Pull
    \/ Build
    \/ BwoCall
    \/ BwoChunk
    \/ BwoExhausted
    \/ BwoGet
    \/ ReadBuildLog
    \/ EndBuildLog
    \/ Run
    \/ RunLine
    \/ RunEnd

Spec == Init /\ [][Next]_vars

\* build_with_output on every text of up to MaxTextLen tokens.
NextMatch ==
    \/ BwoCallText
    \/ BwoChunk
    \/ BwoExhausted
    \/ BwoGet
    \/ ReadBuildLog
    \/ EndBuildLog

SpecMatch == Init /\ [][NextMatch]_vars

\* The script: main, which calls run_mnist.
NextMain ==
    \/ MainStart
    \/ MainGet
    \/ MainBuild
    \/ BwoChunk
    \/ BwoExhausted
    \/ BwoDecodeError
    \/ BwoGet
    \/ MainRun
    \/ RunLine
    \/ RunEnd
    \/ MainStage

SpecMain == Init /\ [][NextMain]_vars

-----------------------------------------------------------------------------
(* Properties of build_with_output on a streamed response *)

\* The call was build_with_output, on an event stream, and it has ended.
BwoEnded ==
    /\ op = "build_with_output"
    /\ ~resp.isStr
    /\ outcome.kind # "none"

\* The positions of the error events, and of the stream events whose text
\* matches the success pattern.
ErrorAt(es) == { i \in 1..Len(es) : es[i].error # None }
MatchAt(es) ==
    { i \in 1..Len(es) : es[i].stream # None /\ Match(es[i].stream[1]) # None }

\* C1: on an event sequence with an error event the call raises BuildError
\* with the message of the (first) error event, whatever matching lines come
\* before or after it; it returns no handle and images.get is never called.
C1_ErrorForcesBuildError ==
    (op = "build_with_output" /\ ~resp.isStr /\ ErrorAt(resp.events) # {}) =>
        /\ lookups = <<>>
        /\ outcome.kind # "return"
        /\ outcome.kind = "raise" =>
             /\ outcome.exc = "BuildError"
             /\ outcome.arg =
                  StrArg(resp.events[SetMin(ErrorAt(resp.events))].error[1])
             /\ outcome.value = None
        /\ pc \in {"bwo_loop", "raised", "log_read"}

\* A failed call on a sequence with a matching line before the error event
\* and another after it.
C1_Witness ==
    /\ BwoEnded
    /\ outcome.exc = "BuildError"
    /\ Len(resp.events) = 3
    /\ ErrorAt(resp.events) = {2}
    /\ MatchAt(resp.events) = {1, 3}

\* C2: on an error-free sequence with two or more matching lines, the one
\* lookup is made with the identifier of the last matching line.
C2_LastMatchWins ==
    (BwoEnded /\ ErrorAt(resp.events) = {} /\ Cardinality(MatchAt(resp.events)) >= 2) =>
        /\ Len(lookups) = 1
        /\ Some(lookups[1].id) =
             Match(resp.events[SetMax(MatchAt(resp.events))].stream[1])

\* A call that ended on a sequence whose first and last matching lines carry
\* different identifiers.
C2_Witness ==
    /\ BwoEnded
    /\ ErrorAt(resp.events) = {}
    /\ Cardinality(MatchAt(resp.events)) >= 2
    /\ Match(resp.events[SetMin(MatchAt(resp.events))].stream[1]) #
         Match(resp.events[SetMax(MatchAt(resp.events))].stream[1])
    /\ Len(lookups) = 1

\* The text is the line "Successfully built <hex>", with or without its
\* newline; SuccessHex is its <hex>.
SuccessBody(text) ==
    IF Len(text) > 0 /\ text[Len(text)] = NL
    THEN SubSeq(text, 1, Len(text) - 1) ELSE text
IsSuccessLine(text) ==
    LET b == SuccessBody(text)
    IN  /\ Len(b) >= 2
        /\ b[1] = SB
        /\ \A k \in 2..Len(b) : b[k] \in HexToks
SuccessHex(text) == Tail(SuccessBody(text))

EndsWithSuccessLine(es) ==
    /\ Len(es) > 0
    /\ es[Len(es)].stream # None
    /\ IsSuccessLine(es[Len(es)].stream[1])

\* The call resolved to id: the lookup was made with id, and what the lookup
\* gave is what the call gave.
ResolvedTo(id) ==
    /\ Len(lookups) = 1
    /\ lookups[1].id = id
    /\ IF lookups[1].found
       THEN outcome = Returned(Some(Image(id)))
       ELSE outcome.kind = "raise" /\ outcome.value = None

\* C3 as stated: any sequence that ends in a success line resolves to the
\* identifier of that line.
C3_AnySequence ==
    (BwoEnded /\ EndsWithSuccessLine(resp.events)) =>
        ResolvedTo(SuccessHex(resp.events[Len(resp.events)].stream[1]))

\* C3, amended: any sequence without an error event that ends in a success
\* line resolves to the identifier of that line.
C3_ErrorFreeSequence ==
    (BwoEnded /\ ErrorAt(resp.events) = {} /\ EndsWithSuccessLine(resp.events)) =>
        ResolvedTo(SuccessHex(resp.events[Len(resp.events)].stream[1]))

\* A call that returned the image of the closing success line, after an
\* earlier line with another identifier.
C3_Witness ==
    /\ BwoEnded
    /\ ErrorAt(resp.events) = {}
    /\ EndsWithSuccessLine(resp.events)
    /\ Cardinality(MatchAt(resp.events)) >= 2
    /\ outcome = Returned(Some(Image(<<"a", "b">>)))

\* C4: on a stream without any event the call raises BuildError (with
\* 'Unknown'), returns no handle and never calls images.get.
C4_EmptyStreamFails ==
    (BwoEnded /\ resp.events = <<>>) =>
        /\ outcome = Raised("BuildError", StrArg("Unknown"))
        /\ lookups = <<>>

C4_Witness ==
    /\ BwoEnded
    /\ resp.events = <<>>
    /\ pc = "raised"

\* C5 as stated: on a non-empty sequence without an error event and without
\* a matching line the call raises BuildError carrying the last event of the
\* sequence, whatever that event is.
C5_CarriesLastEvent ==
    (/\ BwoEnded
     /\ resp.events # <<>>
     /\ ErrorAt(resp.events) = {}
     /\ MatchAt(resp.events) = {}) =>
        /\ outcome = Raised("BuildError", EventArg(resp.events[Len(resp.events)]))
        /\ lookups = <<>>

\* C6: the build_log of a BuildError raised after k chunks yields those k
\* chunks first, in order, and the raw build call was made once.
C6_BuildLogIsWhatWasRead ==
    (/\ op = "build_with_output"
     /\ ~resp.isStr
     /\ outcome.exc = "BuildError") =>
        /\ apiBuilds = 1
        /\ \A i \in 1..Min(Len(build_log), Len(chunks)) : build_log[i] = chunks[i]
        /\ pc = "log_read" => Len(build_log) >= Len(chunks)

\* The whole build_log was read after a failure on the second of three
\* events.
C6_Witness ==
    /\ BwoEnded
    /\ outcome.exc = "BuildError"
    /\ pc = "log_read"
    /\ Len(chunks) = 2
    /\ Len(resp.events) = 3
    /\ SubSeq(build_log, 1, 2) = chunks

\* C7: a lookup that finds nothing ends the call with ImageNotFound and
\* without a handle, and a call that fails without a lookup (on an error
\* event, or unresolved) ends with BuildError: the two are told apart.
C7_NotFoundIsNotBuildError ==
    /\ (BwoEnded /\ lookups # <<>> /\ ~lookups[Len(lookups)].found) =>
          /\ image_id # None
          /\ outcome.kind = "raise"
          /\ outcome.exc = "ImageNotFound"
          /\ outcome.value = None
    /\ (BwoEnded /\ outcome.kind = "raise" /\ lookups = <<>>) =>
          outcome.exc = "BuildError"

C7_Witness ==
    /\ BwoEnded
    /\ image_id # None
    /\ lookups # <<>>
    /\ ~lookups[1].found
    /\ outcome.exc = "ImageNotFound"

-----------------------------------------------------------------------------
(* Properties of pull and build *)

\* C8 as stated: when the engine's pull returns a list of length 0, pull logs
\* an anomaly and returns None.
C8_EmptyListGivesNone ==
    (op = "pull" /\ answer = PullList(<<>>)) =>
        /\ logged # <<>>
        /\ outcome = Returned(None)

-----------------------------------------------------------------------------
(* Further properties of build_with_output *)

\* The texts of the events of es that have a stream text, one after the
\* other.
RECURSIVE StreamTexts(_)
StreamTexts(es) ==
    IF es = <<>> THEN <<>>
    ELSE (IF es[1].stream # None THEN es[1].stream[1] ELSE <<>>)
           \o StreamTexts(Tail(es))

\* The events of es before its first error event.
BeforeError(es) ==
    IF ErrorAt(es) = {} THEN es ELSE SubSeq(es, 1, SetMin(ErrorAt(es)) - 1)

\* C14: the console holds, at every moment, the texts of the stream events
\* read so far (an error event ends the loop and is not echoed), in order and
\* once each; at the end, the texts of all stream events before the first
\* error event.
C14_ConsoleIsTextsRead ==
    (op = "build_with_output" /\ ~resp.isStr) =>
        /\ console = StreamTexts(BeforeError(chunks))
        /\ chunks = SubSeq(resp.events, 1, Len(chunks))
        /\ outcome.kind # "none" => console = StreamTexts(BeforeError(resp.events))

\* A call that ended at an error event that has a text of its own, after
\* one text was echoed and with a text left unread.
C14_Witness ==
    /\ BwoEnded
    /\ Len(resp.events) = 3
    /\ ErrorAt(resp.events) = {2}
    /\ resp.events[1].stream # None
    /\ resp.events[2].stream # None
    /\ resp.events[3].stream # None
    /\ console = resp.events[1].stream[1]

\* C17: images.get is called at most once and only when every event has been
\* read and every text echoed; client.api.build is called exactly once.
C17_LookupAfterExhaustion ==
    (op = "build_with_output" /\ ~resp.isStr) =>
        /\ apiBuilds = 1
        /\ Len(lookups) <= 1
        /\ (lookups # <<>> \/ pc = "bwo_get") =>
              /\ chunks = resp.events
              /\ tee.pos = Len(resp.events)
              /\ console = StreamTexts(resp.events)

\* The lookup was made after three events were read.
C17_Witness ==
    /\ BwoEnded
    /\ Len(lookups) = 1
    /\ Len(resp.events) = 3
    /\ MatchAt(resp.events) = {1}

\* The identifier of the last matching line of es, or None.
LastMatch(es) ==
    IF MatchAt(es) = {} THEN None ELSE Match(es[SetMax(MatchAt(es))].stream[1])

\* C18: a chunk with both an error and a stream key ends the call with
\* BuildError and the error message; its text is not echoed and not matched,
\* and it is not recorded as last_event.
C18_ErrorWithStreamIsError ==
    (/\ op = "build_with_output"
     /\ ~resp.isStr
     /\ chunks # <<>>
     /\ chunks[Len(chunks)].error # None
     /\ chunks[Len(chunks)].stream # None) =>
        LET k == Len(chunks)
            before == SubSeq(chunks, 1, k - 1)
        IN  /\ outcome = Raised("BuildError", StrArg(chunks[k].error[1]))
            /\ console = StreamTexts(before)
            /\ image_id = LastMatch(before)
            /\ last_event = IF k = 1 THEN None ELSE Some(chunks[k - 1])
            /\ lookups = <<>>

\* The call ended at a chunk with an error key and a matching text, after a
\* chunk with another text.
C18_Witness ==
    /\ BwoEnded
    /\ Len(chunks) = 2
    /\ chunks[1].stream # None
    /\ chunks[2].error # None
    /\ chunks[2].stream # None
    /\ Match(chunks[2].stream[1]) # None
    /\ image_id = None

\* C19: on a string response the one lookup is made with that string and its
\* result is the call's result; no event is read, nothing is echoed or
\* matched, and BuildError is not raised.
C19_StringResponse ==
    (op = "build_with_output" /\ resp.isStr) =>
        /\ chunks = <<>>
        /\ tee = NewTee
        /\ console = <<>>
        /\ image_id = None
        /\ last_event = None
        /\ outcome.exc # "BuildError"
        /\ pc \in {"bwo_get", "returned", "raised"}
        /\ pc = "bwo_get" => lookups = <<>>
        /\ pc # "bwo_get" =>
              /\ Len(lookups) = 1
              /\ lookups[1].id = resp.str
              /\ outcome = IF lookups[1].found
                           THEN Returned(Some(Image(resp.str)))
                           ELSE Raised("ImageNotFound", StrArg("not found"))

C19_Witness ==
    /\ op = "build_with_output"
    /\ resp.isStr
    /\ pc = "returned"
    /\ outcome.value = Some(Image(resp.str))

-----------------------------------------------------------------------------
(* The pattern, text by text *)

\* The text, less one closing newline, ends with "sha256:" and one or more hex
\* digits; DigestHex is those digits.
DigestAt(text) ==
    LET b == SuccessBody(text)
    IN  { i \in 1..(Len(b) - 1) :
            b[i] = SHA /\ \A k \in (i + 1)..Len(b) : b[k] \in HexToks }
EndsWithDigest(text) == DigestAt(text) # {}
DigestHex(text) ==
    LET b == SuccessBody(text)
    IN  SubSeq(b, SetMin(DigestAt(text)) + 1, Len(b))

\* The identifier a text carries, if it carries one.
Carries(text) ==
    IF IsSuccessLine(text) THEN Some(SuccessHex(text))
    ELSE IF EndsWithDigest(text) THEN Some(DigestHex(text))
    ELSE None

\* The candidate after the texts of es: that of the last text that carries
\* an identifier.
RECURSIVE CandidateAfter(_)
CandidateAfter(es) ==
    IF es = <<>> THEN None
    ELSE LET e == es[Len(es)]
         IN  IF e.stream # None /\ Carries(e.stream[1]) # None
             THEN Carries(e.stream[1])
             ELSE CandidateAfter(SubSeq(es, 1, Len(es) - 1))

\* C16: a text sets the candidate exactly when it is "Successfully built "
\* and a hex identifier, or ends with "sha256:" and a hex identifier (one
\* closing newline allowed); the candidate is then that identifier, and any
\* other text leaves the candidate as it was.
C16_CandidateIffPattern ==
    (op = "build_with_output" /\ ~resp.isStr) =>
        /\ image_id = CandidateAfter(BeforeError(chunks))
        /\ \A i \in 1..Len(resp.events) :
             resp.events[i].stream # None =>
                Match(resp.events[i].stream[1]) = Carries(resp.events[i].stream[1])

\* A digest after other characters replaced the candidate of the text
\* before it.
C16_Witness ==
    /\ BwoEnded
    /\ Len(chunks) = 2
    /\ chunks[2].stream = Some(<<"x", SHA, "b">>)
    /\ image_id = Some(<<"b">>)

-----------------------------------------------------------------------------
(* Properties of run_mnist and main *)

\* The order of the engine calls of run_mnist, the image found or not.
CallOrder(found) ==
    IF found THEN <<"get", "run", "closed", "run", "closed">>
    ELSE <<"get", "build", "run", "closed", "run", "closed">>

\* The positions of the runs in the trace.
RunsAt == { i \in 1..Len(trace) : trace[i].call = "run" }

\* The image run_mnist holds: the one get-by-name gave or, when it gave
\* none, the one the build's lookup gave.
ResolvedImage ==
    IF trace[1].image # None THEN trace[1].image
    ELSE IF lookups # <<>> /\ lookups[Len(lookups)].found
    THEN Some(Image(lookups[Len(lookups)].id))
    ELSE None

\* C11: the engine calls of run_mnist come in the order get-by-name, the
\* build exactly when the image was not found, the download run, the train
\* run, the train run after the download run's output has closed; both runs
\* are given the image that was found or built, the same volumes and the
\* same environment.
C11_CallOrder ==
    /\ (mpc = "none" \/ mpc = "get") => trace = <<>>
    /\ trace # <<>> =>
         LET order == CallOrder(trace[1].image # None)
         IN  /\ Len(trace) <= Len(order)
             /\ \A i \in 1..Len(trace) : trace[i].call = order[i]
             /\ (trace[1].image = None /\ mpc \in {"download", "train"}) =>
                   (Len(trace) >= 2 /\ trace[2].call = "build")
             /\ (trace[1].image = None /\ mpc = "build" /\ pc # "idle") =>
                   Len(trace) = 2
             /\ \A i \in RunsAt :
                   /\ trace[i].command =
                        (IF i = SetMin(RunsAt) THEN DownloadCommand ELSE TrainCommand)
                   /\ trace[i].image # None
                   /\ trace[i].image = ResolvedImage
                   /\ trace[i].volumes = Volumes
                   /\ trace[i].environment = GetEnvVariables(environ)

\* run_mnist returned after the build and both runs, the download run
\* having printed two lines.
C11_Witness ==
    /\ mpc = "done"
    /\ result = Returned(None)
    /\ Len(trace) = 6
    /\ trace[2].call = "build"
    /\ Len(console) >= 2
    /\ "http_proxy" \in trace[5].environment

\* An operation of the engine has failed.
Failed ==
    \/ outcome.kind = "raise"
    \/ result.kind = "raise"
    \/ container_error # None
    \/ lookups # <<>> /\ ~lookups[Len(lookups)].found

\* The number of entries of the trace that satisfy a test.
Count(call, command) ==
    Cardinality({ i \in 1..Len(trace) :
                    trace[i].call = call /\ trace[i].command = command })

\* C12: nothing is retried and nothing is called after a failure: the build,
\* the download run and the train run are each called at most once, and once
\* an engine operation has failed the failure stays and no engine operation
\* follows it.
C12_NoRetryNoRecovery ==
    /\ [](/\ Count("build", "") <= 1
          /\ Count("run", DownloadCommand) <= 1
          /\ Count("run", TrainCommand) <= 1
          /\ apiBuilds <= 1
          /\ Len(lookups) <= 1)
    /\ [][Failed =>
            /\ Failed'
            /\ { i \in 1..Len(trace') : trace'[i].call # "closed" } =
                 { i \in 1..Len(trace) : trace[i].call # "closed" }
            /\ lookups' = lookups
            /\ apiBuilds' = apiBuilds]_vars

\* main has ended after the download run failed: there was no train run.
C12_Witness ==
    /\ mpc = "done"
    /\ container_error # None
    /\ Count("run", DownloadCommand) = 1
    /\ Count("run", TrainCommand) = 0
    /\ Count("build", "") = 1

\* The text main prints for the stderr of a ContainerError.
StderrText(stderr) ==
    IF stderr = None THEN <<>> ELSE <<"b'">> \o stderr[1] \o <<"'">>

\* C13: a ContainerError of either run is caught by main: main prints the
\* command, the image, the exit status and the stderr text of the failed run
\* and returns.
C13_ContainerErrorReported ==
    /\ (container_error # None /\ mpc = "done") =>
          /\ result = Returned(None)
          /\ summary # None
          /\ trace[Len(trace)].call = "run"
          /\ summary[1].command = trace[Len(trace)].command
          /\ Some(summary[1].image) = trace[Len(trace)].image
          /\ summary[1].exit_status = container_error[1].exit_status
          /\ summary[1].exit_status \in ExitStatuses
          /\ summary[1].stderr = StderrText(container_error[1].stderr)
    /\ summary # None => container_error # None

\* main returned after the train run failed with something on stderr.
C13_Witness ==
    /\ mpc = "done"
    /\ result = Returned(None)
    /\ summary # None
    /\ summary[1].command = TrainCommand
    /\ summary[1].stderr = <<"b'", "oops", NL, "'">>

-----------------------------------------------------------------------------
(* Properties of Docker.run *)

\* The texts of lines.
LineTexts(ls) == [k \in 1..Len(ls) |-> ls[k].bytes]

\* C15 as stated: run prints every line of the output once and in order,
\* each before the next is read, and returns when the output has closed.
C15_PrintsEveryLine ==
    (op = "run" /\ mpc = "none" /\ container_error = None /\ pc # "idle") =>
        /\ console = LineTexts(SubSeq(output, 1, outpos))
        /\ pc # "run_loop" =>
              /\ outcome = Returned(None)
              /\ outpos = Len(output)
              /\ console = LineTexts(output)

====
